---------------------------- MODULE Spec2Model ----------------------------
(***************************************************************************)
(* A model of the boolean-expression indexer of src/indexer.h: the packed  *)
(* Entry, the posting list and posting-list group cursors, the per-size    *)
(* inverted indices built by Indexer::build, and Indexer::retrieve as a    *)
(* state machine, one step per outer-loop decision and per iteration of    *)
(* the inner k-way merge.                                                  *)
(*                                                                         *)
(* Four specifications:                                                    *)
(*   Spec       Indexer::create on a bounded document list, then one       *)
(*              Indexer::retrieve with a bounded assignment.               *)
(*   SpecFair   the same on fewer document lists, with the fairness of a   *)
(*              program that keeps running.                                *)
(*   SpecEntry  detail::Entry as a pure function of its three arguments,   *)
(*              in and out of the field bounds.                            *)
(*   SpecGroup  detail::PostingListGroup under arbitrary add / skipTo      *)
(*              calls.                                                     *)
(***************************************************************************)
EXTENDS Integers, Sequences, FiniteSets, TLC

VARIABLES
    documents,  \* the argument of Indexer::create
    s,          \* the Assignment of retrieve: the (key, values) tuples of trigger, in order
    indexs_,    \* Indexer::indexs_ : indexs_[n] is the inverted index of size n-1
    z_,         \* Indexer::z_
    result_,    \* ResultSet::result_
    pc,         \* where retrieve stands
    i,          \* retrieve's outer loop variable (int)
    k,          \* retrieve's k after "if (k == 0) k = 1" (the spec's `required`)
    plists,     \* retrieve's working set, std::vector<PostingListGroup>
    taken,      \* history: <<branch, size pass i, Entry id of plists[k-1]>> of every inner-loop branch taken
    fault,      \* history: an access outside its container has happened
    ent,        \* SpecEntry: the arguments of one Entry construction and its result
    grp         \* SpecGroup: the PostingListGroup under test

vars == <<documents, s, indexs_, z_, result_, pc, i, k, plists, taken, fault, ent, grp>>

---------------------------------------------------------------------------
(* Bounds of the model.                                                    *)

\* Width of Entry's conjunction-index field. The code's is 16 (shift by 17,
\* mask 0xFFFF); the model's word is scaled down so that the whole range of
\* Entry values can be enumerated.
IdxBits == 2
\* Width of Entry's document-id field: the code's is 64 - 17 = 47.
DocBits == 2
\* Documents per list, conjunctions per list, predicates per conjunction,
\* predicates per list, and predicates per list when all are positive.
MaxDocs == 2
MaxConjs == 2
MaxExpr == 3
MaxPreds == 3
MaxPosPreds == 4
\* Predicates per list in SpecFair.
MaxFairPreds == 2
\* Posting lists per group and entries per posting list in SpecGroup.
MaxMembers == 2
MaxLen == 2

IntVals == {1, 2}
StrVals == {"x"}

---------------------------------------------------------------------------
(* Unsigned machine arithmetic.                                            *)

RECURSIVE Pow2(_)
Pow2(n) == IF n = 0 THEN 1 ELSE 2 * Pow2(n - 1)

\* Bits of EntryId (std::uint64_t in the code).
WordBits == DocBits + IdxBits + 1
Word == Pow2(WordBits)

\* x << n on EntryId: bits shifted out of the word are lost.
ShiftLeft(x, n) == (x * Pow2(n)) % Word

ShiftRight(x, n) == x \div Pow2(n)

RECURSIVE BitOr(_, _)
BitOr(x, y) ==
    IF x = 0 THEN y
    ELSE IF y = 0 THEN x
    ELSE (IF (x % 2 = 1) \/ (y % 2 = 1) THEN 1 ELSE 0) + 2 * BitOr(x \div 2, y \div 2)

RECURSIVE BitAnd(_, _)
BitAnd(x, y) ==
    IF x = 0 \/ y = 0 THEN 0
    ELSE (IF (x % 2 = 1) /\ (y % 2 = 1) THEN 1 ELSE 0) + 2 * BitAnd(x \div 2, y \div 2)

Min(a, b) == IF b < a THEN b ELSE a

---------------------------------------------------------------------------
(* detail::Entry: an Entry is its value_.                                  *)

Entry(docId, index, positive) ==
    BitOr(BitOr(ShiftLeft(docId, IdxBits + 1), ShiftLeft(index, 1)),
          IF positive THEN 1 ELSE 0)

id(e) == ShiftRight(e, 1)

documentId(e) == ShiftRight(e, IdxBits + 1)

conjunctionIndex(e) == BitAnd(ShiftRight(e, 1), Pow2(IdxBits) - 1)

\* isNegative with the polarity bit read the wrong way round: the variant
\* under which C4_NegationVeto fails.
isNegative_inverted(e) == BitAnd(e, 1) = 1

isNegative(e) == BitAnd(e, 1) = 0

Entry_max == Word - 1

---------------------------------------------------------------------------
(* detail::PostingList: a cursor over a slice. data is the slice           *)
(* [begin, end); cur is the position of current_ in it, Len(data) + 1      *)
(* when current_ = end_.                                                   *)

\* What a read through current_ yields once current_ has reached end_.
BadRead == -1

PostingList(data) == [data |-> data, cur |-> 1]

PostingList_empty(pl) == pl.cur = Len(pl.data) + 1

PostingList_current(pl) ==
    IF pl.cur \in DOMAIN pl.data THEN pl.data[pl.cur] ELSE BadRead

\* skipTo with its comparison turned round, which leaves a cursor that
\* stands below the target where it is: the variant under which
\* C7_RetrieveTerminates fails.
RECURSIVE PostingList_skipTo_reversed(_, _)
PostingList_skipTo_reversed(pl, target) ==
    IF (pl.cur # Len(pl.data) + 1) /\ (id(PostingList_current(pl)) > target)
    THEN PostingList_skipTo_reversed([pl EXCEPT !.cur = @ + 1], target)
    ELSE pl

RECURSIVE PostingList_skipTo(_, _)
PostingList_skipTo(pl, target) ==
    IF (pl.cur # Len(pl.data) + 1) /\ (id(PostingList_current(pl)) < target)
    THEN PostingList_skipTo([pl EXCEPT !.cur = @ + 1], target)
    ELSE pl

---------------------------------------------------------------------------
(* detail::PostingListGroup. src is not a member of the class: it names    *)
(* the trigger call (the key, or "Z") the group was made for, so that a    *)
(* group can be followed across the sorts of the working set.              *)

PostingListGroup(src) == [current_ |-> Entry_max, plists_ |-> <<>>, src |-> src]

PostingListGroup_empty(g) == g.current_ = Entry_max

PostingListGroup_current(g) == g.current_

PostingListGroup_add(g, plist) ==
    IF PostingList_empty(plist) THEN g
    ELSE [g EXCEPT !.current_ = Min(g.current_, PostingList_current(plist)),
                   !.plists_ = Append(g.plists_, plist)]

\* The loop body of PostingListGroup::skipTo for one member: the member
\* after the call and what it contributes to min.
SkipMember(plist, target) ==
    IF PostingList_empty(plist) THEN plist ELSE PostingList_skipTo(plist, target)

RECURSIVE MinCurrent(_, _, _)
MinCurrent(members, n, min) ==
    IF n > Len(members) THEN min
    ELSE IF PostingList_empty(members[n]) THEN MinCurrent(members, n + 1, min)
    ELSE IF PostingList_current(members[n]) < min
         THEN MinCurrent(members, n + 1, PostingList_current(members[n]))
         ELSE MinCurrent(members, n + 1, min)

\* skipTo with min started at the least Entry instead of Entry::max(): the
\* variant under which C8_CursorsMonotonic fails.
PostingListGroup_skipTo_minFromZero(g, target) ==
    IF g.current_ = Entry_max THEN g
    ELSE LET members == [n \in DOMAIN g.plists_ |-> SkipMember(g.plists_[n], target)]
         IN  [g EXCEPT !.plists_ = members,
                       !.current_ = MinCurrent(members, 1, 0)]

PostingListGroup_skipTo(g, target) ==
    IF g.current_ = Entry_max THEN g
    ELSE LET members == [n \in DOMAIN g.plists_ |-> SkipMember(g.plists_[n], target)]
         IN  [g EXCEPT !.plists_ = members,
                       !.current_ = MinCurrent(members, 1, Entry_max)]

---------------------------------------------------------------------------
(* detail::InvertedIndexImpl<Key, T>: indexs_ as a function from the keys  *)
(* present to functions from the values present to vectors of Entry.       *)

EmptyMap == [x \in {} |-> <<>>]

InvertedIndexImpl_addEntry(m, entry, key, vals) ==
    LET t  == IF key \in DOMAIN m THEN m[key] ELSE EmptyMap
        t2 == [v \in (DOMAIN t) \cup vals |->
                  IF v \in vals
                  THEN Append(IF v \in DOMAIN t THEN t[v] ELSE <<>>, entry)
                  ELSE t[v]]
    IN  [x \in (DOMAIN m) \cup {key} |-> IF x = key THEN t2 ELSE m[x]]

RECURSIVE TriggerValues(_, _, _, _)
TriggerValues(t, group, vals, n) ==
    IF n > Len(vals) THEN group
    ELSE IF vals[n] \notin DOMAIN t THEN TriggerValues(t, group, vals, n + 1)
    ELSE TriggerValues(t, PostingListGroup_add(group, PostingList(t[vals[n]])), vals, n + 1)

InvertedIndexImpl_trigger(m, group, key, vals) ==
    IF key \notin DOMAIN m THEN group
    ELSE TriggerValues(m[key], group, vals, 1)

InvertedIndexImpl_build(m) ==
    [x \in DOMAIN m |-> [v \in DOMAIN m[x] |-> SortSeq(m[x][v], LAMBDA a, b : a < b)]]

---------------------------------------------------------------------------
(* detail::InvertedIndex<Key>. A vector of values is the variant           *)
(* [tag, ints, strs]: tag says which alternative is held, the other is     *)
(* empty. The dispatch on the static value type is the dispatch on tag.    *)

InvertedIndex == [intIndex_ |-> EmptyMap, stringIndex_ |-> EmptyMap]

InvertedIndex_addEntry(ix, entry, key, values) ==
    IF values.tag = "string"
    THEN [ix EXCEPT !.stringIndex_ = InvertedIndexImpl_addEntry(@, entry, key, values.strs)]
    ELSE [ix EXCEPT !.intIndex_ = InvertedIndexImpl_addEntry(@, entry, key, values.ints)]

InvertedIndex_trigger(ix, group, key, values) ==
    IF values.tag = "string"
    THEN InvertedIndexImpl_trigger(ix.stringIndex_, group, key, values.strs)
    ELSE InvertedIndexImpl_trigger(ix.intIndex_, group, key, values.ints)

InvertedIndex_build(ix) ==
    [intIndex_ |-> InvertedIndexImpl_build(ix.intIndex_),
     stringIndex_ |-> InvertedIndexImpl_build(ix.stringIndex_)]

---------------------------------------------------------------------------
(* Expression, Conjunction, Document. An expression is                     *)
(* [key, values, positive]; a conjunction is its vector of expressions and *)
(* a document its vector of conjunctions.                                  *)

getConjunctionSize(c) == Cardinality({n \in DOMAIN c : c[n].positive})

---------------------------------------------------------------------------
(* Indexer::build. st is [indexs_, z_]; document i and conjunction j are   *)
(* numbered from 0 as in the code, the sequences from 1.                   *)

Resize(v, n) ==
    IF Len(v) < n THEN v \o [m \in 1..(n - Len(v)) |-> InvertedIndex] ELSE v

RECURSIVE BuildExpressions(_, _, _, _, _, _)
BuildExpressions(st, c, n, di, cj, size) ==
    IF n > Len(c) THEN st
    ELSE LET expr    == c[n]
             entry   == Entry(di, cj, expr.positive)
             resized == Resize(st.indexs_, size + 1)
             added   == [resized EXCEPT ![size + 1] =
                            InvertedIndex_addEntry(@, entry, expr.key, expr.values)]
         IN  BuildExpressions([st EXCEPT !.indexs_ = added], c, n + 1, di, cj, size)

RECURSIVE BuildConjunctions(_, _, _, _)
BuildConjunctions(st, doc, n, di) ==
    IF n > Len(doc) THEN st
    ELSE LET size == getConjunctionSize(doc[n])
             st1  == BuildExpressions(st, doc[n], 1, di, n - 1, size)
             st2  == IF size = 0
                     THEN [st1 EXCEPT !.z_ = Append(@, Entry(di, n - 1, TRUE))]
                     ELSE st1
         IN  BuildConjunctions(st2, doc, n + 1, di)

RECURSIVE BuildDocuments(_, _, _)
BuildDocuments(st, docs, n) ==
    IF n > Len(docs) THEN st
    ELSE BuildDocuments(BuildConjunctions(st, docs[n], 1, n - 1), docs, n + 1)

build(docs) ==
    LET st == BuildDocuments([indexs_ |-> <<>>, z_ |-> <<>>], docs, 1)
    IN  [indexs_ |-> [n \in DOMAIN st.indexs_ |-> InvertedIndex_build(st.indexs_[n])],
         z_      |-> SortSeq(st.z_, LAMBDA a, b : a < b)]

---------------------------------------------------------------------------
(* Assignment (src/example.cpp): trigger calls its callback once per bound *)
(* key, key "a" with integers and key "b" with strings; size() is the      *)
(* number of bound keys.                                                   *)

Assignment_size(a) == Len(a)

---------------------------------------------------------------------------
(* Indexer::getPostingLists and the bounds of Indexer::retrieve's loop.    *)

\* indexs_.size() - 1 is computed in size_t and narrowed to int by
\* std::min<int>: 0 - 1 wraps to the largest size_t, which narrows to -1.
SizeMinusOneAsInt(n) == IF n = 0 THEN -1 ELSE n - 1

\* The loop started at indexs_.size() instead of indexs_.size() - 1: the
\* variant under which C10_AccessesInRange fails.
OuterStart_fromSize(ixs, a) == Min(Len(ixs), Assignment_size(a))

OuterStart(ixs, a) == Min(SizeMinusOneAsInt(Len(ixs)), Assignment_size(a))

\* k = max(i, 1) as retrieve computes it after collecting the lists.
Required(i0) == IF i0 = 0 THEN 1 ELSE i0

RECURSIVE TriggerAll(_, _, _, _)
TriggerAll(ix, a, n, result) ==
    IF n > Len(a) THEN result
    ELSE LET group == InvertedIndex_trigger(ix, PostingListGroup(a[n].key),
                                            a[n].key, a[n].values)
         IN  TriggerAll(ix, a, n + 1,
                        IF ~PostingListGroup_empty(group) THEN Append(result, group)
                        ELSE result)

\* getPostingLists without the zero list: the variant under which
\* C3_SizeZeroPass fails.
getPostingLists_withoutZ(ixs, z, k0, a) == TriggerAll(ixs[k0 + 1], a, 1, <<>>)

getPostingLists(ixs, z, k0, a) ==
    LET triggered == TriggerAll(ixs[k0 + 1], a, 1, <<>>)
    IN  IF (k0 = 0) /\ (z # <<>>)
        THEN Append(triggered, PostingListGroup_add(PostingListGroup("Z"), PostingList(z)))
        ELSE triggered

---------------------------------------------------------------------------
(* The steps of one inner-loop iteration of Indexer::retrieve.             *)

\* std::sort(plists.begin(), plists.end()): every order of the working set
\* that is ascending by current(); std::sort leaves the order of groups
\* with equal current() open.
Sorted(ps) ==
    {[n \in DOMAIN ps |-> ps[q[n]]] : q \in
        {q \in Permutations(DOMAIN ps) :
            \A a, b \in DOMAIN ps : a < b => ~(ps[q[b]].current_ < ps[q[a]].current_)}}

\* The veto branch's loop over the groups at index >= k.
RECURSIVE RejectTail(_, _, _)
RejectTail(p, l, rejectId) ==
    IF l > Len(p) THEN p
    ELSE IF id(PostingListGroup_current(p[l])) = rejectId
         THEN RejectTail([p EXCEPT ![l] = PostingListGroup_skipTo(@, rejectId + 1)],
                         l + 1, rejectId)
         ELSE p

\* for (l = 0; l < k; ++l) plists[l].skipTo(nextId)
SkipFirst(p, kk, nextId) ==
    [l \in DOMAIN p |-> IF l <= kk THEN PostingListGroup_skipTo(p[l], nextId) ELSE p[l]]

IdsEqual(p, kk) ==
    id(PostingListGroup_current(p[1])) = id(PostingListGroup_current(p[kk]))

---------------------------------------------------------------------------
(* The inputs: the document lists given to Indexer::create and the         *)
(* assignments given to Indexer::retrieve.                                 *)

IntValues(V) == [tag |-> "int", ints |-> V, strs |-> {}]
StringValues(V) == [tag |-> "string", ints |-> {}, strs |-> V]

\* Key "a" carries integers and key "b" strings, as in src/example.cpp. The
\* values of a predicate are a non-empty set: the order of a predicate's
\* values does not matter to addEntry, which appends to one vector per value.
Expressions ==
    {[key |-> "a", values |-> IntValues(V), positive |-> p] :
        V \in (SUBSET IntVals) \ {{}}, p \in BOOLEAN}
    \cup
    {[key |-> "b", values |-> StringValues(V), positive |-> p] :
        V \in (SUBSET StrVals) \ {{}}, p \in BOOLEAN}

PositiveExpressions == {e \in Expressions : e.positive}

\* Documents of at most c conjunctions holding at most b predicates in all,
\* the predicates taken from X.
RECURSIVE DocumentsWithin(_, _, _)
DocumentsWithin(c, b, X) ==
    IF c = 0 THEN {<<>>}
    ELSE {<<>>} \cup
         UNION {UNION {{<<cj>> \o rest : rest \in DocumentsWithin(c - 1, b - e, X)} :
                         cj \in [1..e -> X]} :
                  e \in 0..Min(MaxExpr, b)}

RECURSIVE NumPredicates(_)
NumPredicates(doc) ==
    IF doc = <<>> THEN 0 ELSE Len(Head(doc)) + NumPredicates(Tail(doc))

\* Document lists of at most n documents holding at most c conjunctions and
\* at most b predicates in all.
RECURSIVE DocumentLists(_, _, _, _)
DocumentLists(n, c, b, X) ==
    IF n = 0 THEN {<<>>}
    ELSE {<<>>} \cup
         UNION {{<<doc>> \o rest :
                     rest \in DocumentLists(n - 1, c - Len(doc), b - NumPredicates(doc), X)} :
                  doc \in DocumentsWithin(c, b, X)}

\* The lists given to Indexer::create: every list within the bounds, and the
\* lists of positive predicates with one predicate more, which hold the two
\* conjunctions of size 2 that the ids-differ branch of retrieve takes.
\* All of them lie within Entry's field bounds and below the document id
\* of Entry::max() (MaxDocs < 2^DocBits, MaxConjs <= 2^IdxBits): Entry
\* outside its bounds and at Entry::max() is the subject of SpecEntry and
\* SpecGroup.
Inputs ==
    DocumentLists(MaxDocs, MaxConjs, MaxPreds, Expressions)
    \cup DocumentLists(MaxDocs, MaxConjs, MaxPosPreds, PositiveExpressions)

\* The value vectors of one trigger call: ascending, without repetition.
Ascending(vals) ==
    {q \in UNION {[1..n -> vals] : n \in 1..Cardinality(vals)} :
        \A a, b \in DOMAIN q : a < b => q[a] < q[b]}

BindingsA ==
    {[key |-> "a", values |-> [tag |-> "int", ints |-> q, strs |-> <<>>]] :
        q \in Ascending(IntVals)}

BindingsB ==
    {[key |-> "b", values |-> [tag |-> "string", ints |-> <<>>, strs |-> <<"x">>]]}

Assignments ==
    {<<>>} \cup {<<a>> : a \in BindingsA} \cup {<<b>> : b \in BindingsB}
           \cup {<<a, b>> : a \in BindingsA, b \in BindingsB}

NoEntry == [docId |-> 0, index |-> 0, positive |-> FALSE, built |-> FALSE, value |-> 0]

---------------------------------------------------------------------------
(* Spec: Indexer::create on a document list, then one Indexer::retrieve    *)
(* with an assignment.                                                     *)

Init ==
    /\ documents = <<>>
    /\ s = <<>>
    /\ indexs_ = <<>>
    /\ z_ = <<>>
    /\ result_ = {}
    /\ pc = "start"
    /\ i = 0
    /\ k = 0
    /\ plists = <<>>
    /\ taken = {}
    /\ fault = FALSE
    /\ ent = NoEntry
    /\ grp = PostingListGroup("none")

\* Indexer::create(documents).
Create ==
    /\ pc = "start"
    /\ \E docs \in Inputs :
          /\ documents' = docs
          /\ LET built == build(docs)
             IN  /\ indexs_' = built.indexs_
                 /\ z_' = built.z_
    /\ pc' = "ready"
    /\ UNCHANGED <<s, result_, i, k, plists, taken, fault, ent, grp>>

\* retrieve(result, s) is entered with an empty result set: the outer loop's
\* initialisation.
RetrieveBegin ==
    /\ pc = "ready"
    /\ \E a \in Assignments :
          /\ s' = a
          /\ i' = OuterStart(indexs_, a)
    /\ pc' = "outer"
    /\ UNCHANGED <<documents, indexs_, z_, result_, k, plists, taken, fault, ent, grp>>

\* The outer loop's condition fails: retrieve returns.
RetrieveEnd ==
    /\ pc = "outer"
    /\ i < 0
    /\ pc' = "done"
    /\ UNCHANGED <<documents, s, indexs_, z_, result_, i, k, plists, taken, fault, ent, grp>>

\* plists.clear(); getPostingLists(plists, k, s). A read of indexs_[i]
\* outside indexs_ is recorded in fault and yields no lists.
IndexInRange == (i + 1) \in DOMAIN indexs_

Collected == IF IndexInRange THEN getPostingLists(indexs_, z_, i, s) ELSE <<>>

\* plists.size() < k: continue.
SizeSkip ==
    /\ pc = "outer"
    /\ i >= 0
    /\ Len(Collected) < Required(i)
    /\ plists' = Collected
    /\ k' = Required(i)
    /\ i' = i - 1
    /\ fault' = (fault \/ ~IndexInRange)
    /\ UNCHANGED <<documents, s, indexs_, z_, result_, pc, taken, ent, grp>>

\* Otherwise the inner loop is entered.
SizeEnter ==
    /\ pc = "outer"
    /\ i >= 0
    /\ ~(Len(Collected) < Required(i))
    /\ plists' = Collected
    /\ k' = Required(i)
    /\ pc' = "inner"
    /\ fault' = (fault \/ ~IndexInRange)
    /\ UNCHANGED <<documents, s, indexs_, z_, result_, i, taken, ent, grp>>

\* plists[k - 1].empty(): break, and the outer loop's --i.
Terminate ==
    /\ pc = "inner"
    /\ k \in DOMAIN plists
    /\ \E p \in Sorted(plists) :
          /\ PostingListGroup_empty(p[k])
          /\ plists' = p
    /\ pc' = "outer"
    /\ i' = i - 1
    /\ UNCHANGED <<documents, s, indexs_, z_, result_, k, taken, fault, ent, grp>>

\* The ids of plists[0] and plists[k - 1] are equal and plists[0] is not
\* negative: the document is added, and the first k groups skip past the id.
Match ==
    /\ pc = "inner"
    /\ k \in DOMAIN plists
    /\ \E p \in Sorted(plists) :
          /\ ~PostingListGroup_empty(p[k])
          /\ IdsEqual(p, k)
          /\ ~isNegative(PostingListGroup_current(p[1]))
          /\ result_' = result_ \cup {documentId(PostingListGroup_current(p[k]))}
          /\ taken' = taken \cup {<<"match", i, id(PostingListGroup_current(p[k]))>>}
          /\ plists' = SkipFirst(p, k, id(PostingListGroup_current(p[k])) + 1)
    /\ UNCHANGED <<documents, s, indexs_, z_, pc, i, k, fault, ent, grp>>

\* The ids are equal and plists[0] is negative: the groups behind the first
\* k that stand on the id skip past it, then the first k do.
Veto ==
    /\ pc = "inner"
    /\ k \in DOMAIN plists
    /\ \E p \in Sorted(plists) :
          /\ ~PostingListGroup_empty(p[k])
          /\ IdsEqual(p, k)
          /\ isNegative(PostingListGroup_current(p[1]))
          /\ LET rejectId == id(PostingListGroup_current(p[1]))
                 rejected == RejectTail(p, k + 1, rejectId)
             IN  /\ plists' = SkipFirst(rejected, k,
                                        id(PostingListGroup_current(rejected[k])) + 1)
                 /\ taken' = taken \cup {<<"veto", i, rejectId>>}
    /\ UNCHANGED <<documents, s, indexs_, z_, result_, pc, i, k, fault, ent, grp>>

\* The ids differ: the first k groups skip to the id of plists[k - 1].
Advance ==
    /\ pc = "inner"
    /\ k \in DOMAIN plists
    /\ \E p \in Sorted(plists) :
          /\ ~PostingListGroup_empty(p[k])
          /\ ~IdsEqual(p, k)
          /\ plists' = SkipFirst(p, k, id(PostingListGroup_current(p[k])))
          /\ taken' = taken \cup {<<"advance", i, id(PostingListGroup_current(p[k]))>>}
    /\ UNCHANGED <<documents, s, indexs_, z_, result_, pc, i, k, fault, ent, grp>>

Next ==
    \/ Create
    \/ RetrieveBegin
    \/ RetrieveEnd
    \/ SizeSkip
    \/ SizeEnter
    \/ Terminate
    \/ Match
    \/ Veto
    \/ Advance

Spec == Init /\ [][Next]_vars

---------------------------------------------------------------------------
(* What the specification says of an assignment and a conjunction.         *)

\* Some value the assignment binds to the predicate's key lies in the
\* predicate's values.
Hit(e) ==
    \E n \in DOMAIN s :
        /\ s[n].key = e.key
        /\ s[n].values.tag = e.values.tag
        /\ IF e.values.tag = "int"
           THEN \E m \in DOMAIN s[n].values.ints : s[n].values.ints[m] \in e.values.ints
           ELSE \E m \in DOMAIN s[n].values.strs : s[n].values.strs[m] \in e.values.strs

\* Every positive predicate is hit and no negative one is.
Holds(c) == \A n \in DOMAIN c : c[n].positive <=> Hit(c[n])

Vetoed(c) == \E n \in DOMAIN c : ~c[n].positive /\ Hit(c[n])

\* The document ids the specification expects of retrieve.
Expected == {d - 1 : d \in {d \in DOMAIN documents : \E j \in DOMAIN documents[d] : Holds(documents[d][j])}}

\* The conjunctions of the list, by position <<d, j>>: conjunction j - 1 of
\* document d - 1.
Conjunctions == UNION {{<<d, j>> : j \in DOMAIN documents[d]} : d \in DOMAIN documents}

ConjunctionAt(c) == documents[c[1]][c[2]]

\* The Entry id build gives the conjunction.
EntryIdOf(c) == id(Entry(c[1] - 1, c[2] - 1, TRUE))

\* The conjunctions behind an Entry id.
ConjunctionsOfId(x) == {c \in Conjunctions : EntryIdOf(c) = x}

Branch(name) == {<<t[2], t[3]>> : t \in {u \in taken : u[1] = name}}

---------------------------------------------------------------------------
(* SpecFair: create and retrieve of a program that keeps running.          *)
(* retrieve is single-threaded code that nothing suspends: a step that can *)
(* be taken is taken. The lists are those of at most MaxFairPreds          *)
(* predicates and those whose conjunctions all hold two positive           *)
(* predicates.                                                             *)

FairInputs ==
    DocumentLists(MaxDocs, MaxConjs, MaxFairPreds, Expressions)
    \cup {docs \in DocumentLists(MaxDocs, MaxConjs, MaxPosPreds, PositiveExpressions) :
            \A d \in DOMAIN docs : \A j \in DOMAIN docs[d] : Len(docs[d][j]) = 2}

CreateFair ==
    /\ pc = "start"
    /\ \E docs \in FairInputs :
          /\ documents' = docs
          /\ LET built == build(docs)
             IN  /\ indexs_' = built.indexs_
                 /\ z_' = built.z_
    /\ pc' = "ready"
    /\ UNCHANGED <<s, result_, i, k, plists, taken, fault, ent, grp>>

NextFair ==
    \/ CreateFair
    \/ RetrieveBegin
    \/ RetrieveEnd
    \/ SizeSkip
    \/ SizeEnter
    \/ Terminate
    \/ Match
    \/ Veto
    \/ Advance

SpecFair == Init /\ [][NextFair]_vars /\ WF_vars(NextFair)

---------------------------------------------------------------------------
(* SpecEntry: one construction of an Entry from arguments inside and        *)
(* outside the field bounds.                                                *)

Idle ==
    /\ documents = <<>>
    /\ s = <<>>
    /\ indexs_ = <<>>
    /\ z_ = <<>>
    /\ result_ = {}
    /\ i = 0
    /\ k = 0
    /\ plists = <<>>
    /\ taken = {}
    /\ fault = FALSE

InitEntry ==
    /\ Idle
    /\ pc = "entry"
    /\ ent \in [docId : 0..(2 * Pow2(DocBits) - 1), index : 0..(2 * Pow2(IdxBits) - 1),
                positive : BOOLEAN, built : {FALSE}, value : {0}]
    /\ grp = PostingListGroup("none")

Construct ==
    /\ pc = "entry"
    /\ ~ent.built
    /\ ent' = [ent EXCEPT !.built = TRUE,
                          !.value = Entry(ent.docId, ent.index, ent.positive)]
    /\ UNCHANGED <<documents, s, indexs_, z_, result_, pc, i, k, plists, taken, fault, grp>>

NextEntry == Construct

SpecEntry == InitEntry /\ [][NextEntry]_vars

InBounds(e) == e.docId < Pow2(DocBits) /\ e.index < Pow2(IdxBits)

---------------------------------------------------------------------------
(* SpecGroup: a PostingListGroup under any sequence of add and skipTo.      *)

\* Entries of the lowest and the highest document id and conjunction index
\* the fields hold, in both polarities.
GroupEntries ==
    {Entry(d, j, p) : d \in {0, Pow2(DocBits) - 1}, j \in {0, Pow2(IdxBits) - 1},
                      p \in BOOLEAN}

\* The vectors a posting list may view: ascending, repetitions allowed.
Slices ==
    {q \in UNION {[1..n -> GroupEntries] : n \in 0..MaxLen} :
        \A a, b \in DOMAIN q : a < b => q[a] <= q[b]}

InitGroup ==
    /\ Idle
    /\ pc = "group"
    /\ ent = NoEntry
    /\ grp = PostingListGroup("g")

GroupAdd ==
    /\ pc = "group"
    /\ Len(grp.plists_) < MaxMembers
    /\ \E data \in Slices : grp' = PostingListGroup_add(grp, PostingList(data))
    /\ UNCHANGED <<documents, s, indexs_, z_, result_, pc, i, k, plists, taken, fault, ent>>

GroupSkipTo ==
    /\ pc = "group"
    /\ \E e \in GroupEntries, d \in {0, 1} :
          grp' = PostingListGroup_skipTo(grp, id(e) + d)
    /\ UNCHANGED <<documents, s, indexs_, z_, result_, pc, i, k, plists, taken, fault, ent>>

NextGroup == GroupAdd \/ GroupSkipTo

SpecGroup == InitGroup /\ [][NextGroup]_vars

---------------------------------------------------------------------------
(* The claims.                                                              *)

SizeOf(c) == getConjunctionSize(ConjunctionAt(c))

\* The size-0 conjunctions that hold at least one (negative) predicate.
PureNegations == {c \in Conjunctions : SizeOf(c) = 0 /\ ConjunctionAt(c) # <<>>}

\* The group of a working set that was made for src.
GroupOf(ps, src) == ps[CHOOSE n \in DOMAIN ps : ps[n].src = src]

RECURSIVE CursorSum(_, _)
CursorSum(members, n) ==
    IF n > Len(members) THEN 0 ELSE members[n].cur + CursorSum(members, n + 1)

\* The members of a group that are not exhausted.
Live(g) == {n \in DOMAIN g.plists_ : ~PostingList_empty(g.plists_[n])}

\* C1: when retrieve has returned on an index built from a list that holds
\* at least one predicate, the result set is exactly the set of document ids
\* with a conjunction whose positive predicates are all hit by the
\* assignment and whose negative predicates are all missed. (The lists
\* without any predicate are those of C2.)
C1_RetrieveMatchesSemantics ==
    (pc = "done" /\ \E c \in Conjunctions : ConjunctionAt(c) # <<>>)
        => (result_ = Expected)

\* C2: when retrieve has returned, every document that holds a conjunction
\* without predicates is in the result set.
C2_EmptyConjunctionMatches ==
    (pc = "done") =>
        \A c \in Conjunctions : (ConjunctionAt(c) = <<>>) => ((c[1] - 1) \in result_)

\* C3: when retrieve has returned, the size-0 pass has taken the match
\* branch for a pure-negation conjunction exactly if the assignment binds
\* none of its negated values, and then its document is in the result set.
C3_SizeZeroPass ==
    (pc = "done") =>
        \A c \in PureNegations :
            /\ (<<0, EntryIdOf(c)>> \in Branch("match")) <=> ~Vetoed(ConjunctionAt(c))
            /\ ~Vetoed(ConjunctionAt(c)) => ((c[1] - 1) \in result_)

\* A pure negation the assignment vetoes and one whose key it binds to
\* another value, both decided by a finished size-0 pass.
C3_Witness ==
    /\ pc = "done"
    /\ \E c1, c2 \in PureNegations :
          /\ Vetoed(ConjunctionAt(c1))
          /\ <<0, EntryIdOf(c1)>> \in Branch("veto")
          /\ ~Vetoed(ConjunctionAt(c2))
          /\ \E n \in DOMAIN s : s[n].key = ConjunctionAt(c2)[1].key
          /\ <<0, EntryIdOf(c2)>> \in Branch("match")

\* C4: the match branch is never taken on the id of a conjunction one of
\* whose negative predicates the assignment hits; and whenever the first k
\* sorted groups agree on such an id, the current entry of group 0 is
\* negative.
C4_NegationVeto ==
    /\ \A m \in Branch("match") :
          \A c \in ConjunctionsOfId(m[2]) : ~Vetoed(ConjunctionAt(c))
    /\ (pc = "inner" /\ k \in DOMAIN plists) =>
          \A p \in Sorted(plists) :
              (/\ ~PostingListGroup_empty(p[k])
               /\ IdsEqual(p, k)
               /\ \E c \in ConjunctionsOfId(id(PostingListGroup_current(p[1]))) :
                     Vetoed(ConjunctionAt(c)))
              => isNegative(PostingListGroup_current(p[1]))

\* A conjunction of size 2 or more, all of its positive predicates hit and
\* a negative one too, vetoed in its size pass and its document not returned.
C4_Witness ==
    /\ pc = "done"
    /\ \E c \in Conjunctions :
          /\ SizeOf(c) >= 2
          /\ Vetoed(ConjunctionAt(c))
          /\ \A n \in DOMAIN ConjunctionAt(c) :
                ConjunctionAt(c)[n].positive => Hit(ConjunctionAt(c)[n])
          /\ <<SizeOf(c), EntryIdOf(c)>> \in Branch("veto")
          /\ (c[1] - 1) \notin result_

\* C5: an Entry is only ever constructed from arguments within the field
\* bounds, and its accessors return the arguments it was constructed from.
C5_EntryBoundsEnforced ==
    ent.built =>
        /\ InBounds(ent)
        /\ documentId(ent.value) = ent.docId
        /\ conjunctionIndex(ent.value) = ent.index
        /\ id(ent.value) = ent.docId * Pow2(IdxBits) + ent.index

\* C6: every Entry constructed from arguments within the field bounds is
\* strictly below Entry::max(), and a group whose current entry it is does
\* not report empty().
C6_MaxAboveEveryEntry ==
    (ent.built /\ InBounds(ent)) =>
        /\ ent.value < Entry_max
        /\ ~PostingListGroup_empty(
               PostingListGroup_add(PostingListGroup("e"), PostingList(<<ent.value>>)))

\* An inner-loop iteration that stays in the loop has strictly advanced a
\* cursor of one of the first k groups.
InnerProgress ==
    (pc = "inner" /\ pc' = "inner") =>
        \E l \in 1..k :
            CursorSum(plists'[l].plists_, 1)
                > CursorSum(GroupOf(plists, plists'[l].src).plists_, 1)

\* C7: retrieve returns, and every inner-loop iteration that does not
\* terminate the loop strictly advances a cursor of one of the first k
\* groups.
C7_RetrieveTerminates == (<>(pc = "done")) /\ [][InnerProgress]_vars

\* A retrieve that has returned after taking the ids-differ branch and the
\* ids-equal branch, the latter both as a match and as a veto or a second match.
C7_Witness ==
    /\ pc = "done"
    /\ Branch("advance") # {}
    /\ Branch("match") # {}

\* A group before and after a step: its current id has not decreased, its
\* members view the same vectors and no member's cursor has moved back.
Monotonic(g0, g1) ==
    /\ id(PostingListGroup_current(g0)) <= id(PostingListGroup_current(g1))
    /\ DOMAIN g0.plists_ = DOMAIN g1.plists_
    /\ \A m \in DOMAIN g1.plists_ :
          /\ g0.plists_[m].data = g1.plists_[m].data
          /\ g0.plists_[m].cur <= g1.plists_[m].cur

\* C8: across every inner-loop iteration, each group of the working set and
\* each of its posting lists is Monotonic.
C8_CursorsMonotonic ==
    [][(pc = "inner") =>
          /\ DOMAIN plists' = DOMAIN plists
          /\ \A n \in DOMAIN plists' :
                Monotonic(GroupOf(plists, plists'[n].src), plists'[n])]_vars

\* In the current size pass a group was matched on an id and skipped past
\* it, while one of its members stood, and still stands, on an id above the
\* skip's target.
C8_Witness ==
    /\ pc = "inner"
    /\ \E t \in taken : \E n \in DOMAIN plists :
          /\ t[1] = "match"
          /\ t[2] = i
          /\ \E m1, m2 \in DOMAIN plists[n].plists_ :
                /\ plists[n].plists_[m1].cur > 1
                /\ id(plists[n].plists_[m1].data[plists[n].plists_[m1].cur - 1]) = t[3]
                /\ plists[n].plists_[m2].cur = 1
                /\ id(PostingList_current(plists[n].plists_[m2])) > t[3] + 1

\* C9: the group's current() is the least current entry of its members that
\* are not exhausted, Entry::max() when there is none, and empty() is true
\* exactly when there is none.
C9_GroupInvariant ==
    /\ (Live(grp) = {}) => (PostingListGroup_current(grp) = Entry_max)
    /\ (Live(grp) # {}) =>
          /\ \E n \in Live(grp) :
                PostingListGroup_current(grp) = PostingList_current(grp.plists_[n])
          /\ \A n \in Live(grp) :
                ~(PostingList_current(grp.plists_[n]) < PostingListGroup_current(grp))
    /\ PostingListGroup_empty(grp) <=> (Live(grp) = {})

\* C10: no read of indexs_ outside it has happened; in the inner loop
\* 1 <= k <= plists.size(); every cursor stands within its vector or at its
\* end, and no group's current entry was read through a cursor at the end.
C10_AccessesInRange ==
    /\ ~fault
    /\ (pc = "inner") => (k >= 1 /\ k <= Len(plists))
    /\ \A n \in DOMAIN plists :
          /\ PostingListGroup_current(plists[n]) # BadRead
          /\ \A m \in DOMAIN plists[n].plists_ :
                plists[n].plists_[m].cur \in 1..(Len(plists[n].plists_[m].data) + 1)

\* The inner loop on the index of the largest size, reading the last group
\* of the working set, with a posting list whose cursor is at its end.
C10_Witness ==
    /\ pc = "inner"
    /\ i = Len(indexs_) - 1
    /\ k = Len(plists)
    /\ taken # {}
    /\ \E n \in DOMAIN plists : \E m \in DOMAIN plists[n].plists_ :
          PostingList_empty(plists[n].plists_[m])

============================================================================
